---- MODULE Spec2Model ----
\* Tenant migration runner (scripts/run_migrations/run_tenant_migrations.py):
\* the orchestrator run_all_tenant_migrations, the executor
\* run_tenant_migration, the checkpoint and rollback helpers and the
\* per-tenant migration_history table they work on; and the initial setup
\* script (scripts/run_migrations/run_initial_setup.py), which creates the
\* databases and fills auth.companies.
EXTENDS Integers, Sequences, FiniteSets, TLC

\* ---------------------------------------------------------------- bounds
MaxRuns == 2      \* invocations of the runner in one behaviour
MaxFaults == 1    \* failing operations (database, file system, upgrade())
MaxEdits == 1     \* edits of the tenant_versions directory between runs

\* ---------------------------------------------------------------- universe
Tenants == {"db_aaa", "db_bbb"}
\* position of a db_name under ORDER BY db_name
TenantRank == [t \in Tenants |-> IF t = "db_aaa" THEN 1 ELSE 2]
\* migration files of migrations/tenant_versions; the number is the rank of
\* the file's path under Path ordering (0001_..., 0002_...)
FileNames == {1, 2}
\* file contents: 1 is the first version of a file that defines upgrade(),
\* 2 a later version of it, 3 a file that defines no upgrade()
Contents == {1, 2, 3}
HasUpgrade(c) == c \in {1, 2}

\* migration_file.name as stored in migration_history.migration_file
FileName(f) == <<"migration", f>>
\* f"pre_migration_{datetime.now().strftime('%Y%m%d_%H%M%S')}"
CheckpointName(stamp) == <<"pre_migration", stamp>>
\* hashlib.sha256(content.encode()).hexdigest(): a function of the content
\* alone, distinct contents giving distinct digests
get_migration_hash(c) == <<"sha256", c>>
CheckpointHash == <<"checkpoint", 0>>

\* what migrations/tenant_versions holds beside the migration files: the
\* package marker, the byte-code cache and a text file
PackageEntries ==
    {[name |-> <<"__init__", 0>>, ext |-> "py"],
     [name |-> <<"__pycache__", 0>>, ext |-> ""],
     [name |-> <<"README", 0>>, ext |-> "md"]}

\* migrations/versions: the system migrations
versions ==
    {[name |-> <<"system", n>>, ext |-> "py"] : n \in {1, 2, 3}}

\* position of a file name of tenant_versions under Path ordering
PathRank(name) == IF name[1] = "migration" THEN name[2] ELSE 0

\* the tenant_versions directory before the first run: any set of files,
\* each in its first version
Catalogs == UNION {[S -> {1, 3}] : S \in SUBSET FileNames}

\* the contents of auth.companies: no tenant, one tenant (whichever it is,
\* the runner treats a single tenant alike) or both
Registries == {{}, {"db_aaa"}, Tenants}

NoLast == [op |-> "none", tenant |-> "", file |-> 0, ret |-> "",
           upgraded |-> FALSE, committed |-> FALSE, failed |-> {},
           out |-> <<>>]

VARIABLES
    companies,        \* auth.companies: the registered tenant databases
    catalog,          \* tenant_versions: file -> content
    hasTable,         \* tenant -> migration_history exists
    history,          \* tenant -> rows of migration_history, in id order
    schema,           \* tenant -> committed schema changes <<name, hash>>
    wall,             \* wall clock of the runner, in seconds since the
                      \* first run; a run starts in a later second than
                      \* the run before it
    pc,               \* position of the runner
    runs,             \* runs started so far
    tenant_dbs, migration_files, successful_dbs, failed_dbs,
    checkpoint_name,
    i, j,             \* indexes of the outer and the inner loop
    result,           \* return value of the last finished run
    faults, edits,    \* budget counters
    last,             \* what the last step did (return value, upgrade
                      \* run, operations that failed, lines printed)
    attempts,         \* <<file, tenant>> pairs attempted in this run
    open_connections, \* connections checked out of an engine and not
                      \* released: <<operation, database>>
    \* run_initial_setup.py
    setup_pc,         \* position of main: "steps" (the loop over
                      \* setup_steps), "tenants" (inside
                      \* run_initial_migrations, creating the tenant
                      \* databases), "exit" (main has returned)
    step,             \* index of the loop over setup_steps
    failed_steps,     \* main's list of the names of the failed steps
    exit_code,        \* value returned by main, -1 before it returns
    env_file,         \* the .env file: "absent", "template", "configured"
    databases,        \* databases of the PostgreSQL server
    leads,            \* tenant databases that hold the table leads
    tenant_names,     \* run_initial_migrations' list tenant_names
    range_i,          \* iterations of "for i in range(3)" made
    executed,         \* step functions main has called, in call order
    outcomes,         \* how each call ended: "True", "False", "raise"
    created           \* names whose CREATE DATABASE succeeded in this run

vars == <<companies, catalog, hasTable, history, schema, wall, pc, runs,
          tenant_dbs, migration_files, successful_dbs, failed_dbs,
          checkpoint_name, i, j, result, faults, edits, last, attempts,
          open_connections, setup_pc, step, failed_steps, exit_code,
          env_file, databases, leads, tenant_names, range_i, executed,
          outcomes, created>>

dbvars == <<hasTable, history, schema>>
envvars == <<companies, catalog, edits>>
runvars == <<tenant_dbs, migration_files, successful_dbs, failed_dbs,
             checkpoint_name, i, j>>
setupvars == <<setup_pc, step, failed_steps, exit_code, env_file, databases,
               leads, tenant_names, range_i, executed, outcomes, created>>

\* ---------------------------------------------------------------- helpers
Range(s) == {s[k] : k \in DOMAIN s}

RECURSIVE SortedSeq(_, _)
\* ascending sequence of the elements of S under the rank function
SortedSeq(S, rank) ==
    IF S = {} THEN <<>>
    ELSE LET m == CHOOSE x \in S : \A y \in S : rank[x] <= rank[y]
         IN <<m>> \o SortedSeq(S \ {m}, rank)

\* SELECT db_name FROM companies ORDER BY db_name
get_tenant_databases == SortedSeq(companies, TenantRank)

\* project_root / "migrations" / "tenant_versions": the entries of the
\* directory
tenant_versions ==
    {[name |-> FileName(f), ext |-> "py"] : f \in DOMAIN catalog}
        \cup PackageEntries

\* dir.glob("*.py")
glob(dir, ext) == {e \in dir : e.ext = ext}

\* the loop without its test of file_path.name
UnitEntries_KeepInit == glob(tenant_versions, "py")

\* for file_path in glob("*.py"): if file_path.name != "__init__.py"
UnitEntries ==
    {e \in glob(tenant_versions, "py") : e.name # <<"__init__", 0>>}

\* migration_files.sort(); return migration_files
tenant_migration_paths ==
    SortedSeq(UnitEntries, [e \in UnitEntries |-> PathRank(e.name)])

\* the glob result without migration_files.sort(), in directory order
get_tenant_migration_files_Unsorted ==
    LET paths == SortedSeq(UnitEntries,
                           [e \in UnitEntries |-> 0 - PathRank(e.name)])
    IN [k \in DOMAIN paths |-> paths[k].name[2]]

\* get_tenant_migration_files, each path as the key of its file in catalog
get_tenant_migration_files ==
    [k \in DOMAIN tenant_migration_paths |-> tenant_migration_paths[k].name[2]]

Row(file, hash, at, status) ==
    [file |-> file, hash |-> hash, at |-> at, status |-> status]

\* applied_at TIMESTAMP DEFAULT CURRENT_TIMESTAMP of a row inserted into
\* table h: the transactions of the sequential runner start at increasing
\* times, and a time is kept as its rank among the times of the table
CURRENT_TIMESTAMP(h) == Len(h) + 1

\* SELECT ... WHERE status = 'applied' ORDER BY applied_at; any exception
\* (table missing, connection failure) gives []
get_applied_migrations(t, readFails) ==
    IF readFails \/ ~hasTable[t] THEN <<>>
    ELSE SelectSeq(history[t], LAMBDA r : r.status = "applied")

\* the loop of run_tenant_migration over applied_migrations
AlreadyApplied(applied, name, hash) ==
    \E k \in DOMAIN applied : applied[k].file = name /\ applied[k].hash = hash

\* create_checkpoint without its connection.commit(): the row is lost
InsertCheckpoint_NoCommit(h, name) == h

\* INSERT ... VALUES (:checkpoint_name, 'checkpoint', 'checkpoint', :data)
InsertCheckpoint(h, name) ==
    Append(h, Row(name, CheckpointHash, CURRENT_TIMESTAMP(h), "checkpoint"))

\* INSERT ... VALUES (:file, :hash, 'applied')
InsertApplied(h, name, hash) ==
    Append(h, Row(name, hash, CURRENT_TIMESTAMP(h), "applied"))

\* rows WHERE migration_file = :checkpoint_name AND status = 'checkpoint'
CheckpointRows(h, name) ==
    {k \in DOMAIN h : h[k].file = name /\ h[k].status = "checkpoint"}

\* ... ORDER BY applied_at ASC LIMIT 1: the first checkpoint of the name
CheckpointAt_Earliest(h, name) ==
    LET cps == CheckpointRows(h, name)
        k == CHOOSE k \in cps : \A m \in cps : h[k].at <= h[m].at
    IN h[k].at

\* ... ORDER BY applied_at DESC LIMIT 1, its applied_at
CheckpointAt(h, name) ==
    LET cps == CheckpointRows(h, name)
        k == CHOOSE k \in cps : \A m \in cps : h[m].at <= h[k].at
    IN h[k].at

\* the UPDATE without its applied_at condition
MarkRolledBack_All(h, name) ==
    [k \in DOMAIN h |->
        IF h[k].status = "applied"
        THEN [h[k] EXCEPT !.status = "rolled_back"]
        ELSE h[k]]

\* UPDATE migration_history SET status = 'rolled_back'
\* WHERE applied_at > (...) AND status = 'applied'
MarkRolledBack(h, name) ==
    [k \in DOMAIN h |->
        IF h[k].at > CheckpointAt(h, name) /\ h[k].status = "applied"
        THEN [h[k] EXCEPT !.status = "rolled_back"]
        ELSE h[k]]

\* a rollback that deletes the rows after the checkpoint
RollbackTable_Delete(h, name) ==
    IF CheckpointRows(h, name) = {} THEN h
    ELSE SelectSeq(h, LAMBDA r : ~(/\ r.at > CheckpointAt(h, name)
                                   /\ r.status = "applied"))

\* rollback_to_checkpoint: the table after the call
RollbackTable(h, name) ==
    IF CheckpointRows(h, name) = {} THEN h ELSE MarkRolledBack(h, name)

\* rollback_to_checkpoint without the test "if not checkpoint_row"
RollbackReturns_AlwaysTrue(h, name) == "true"

\* rollback_to_checkpoint: its return value
RollbackReturns(h, name) ==
    IF CheckpointRows(h, name) = {} THEN "false" ELSE "true"

\* the inner loop without the test for failed tenants
AlreadyFailed_Never(t, failed) == FALSE

\* if tenant_db in failed_dbs: continue
AlreadyFailed(t, failed) == t \in Range(failed)

\* run_tenant_migration with record_migration_success called before
\* upgrade() instead of after the commit
TableAfterExec_RecordFirst(h, name, hash, ret, upgraded) ==
    IF upgraded THEN InsertApplied(h, name, hash) ELSE h

\* the table after run_tenant_migration: record_migration_success is only
\* reached, and only commits, on the path that returns True after upgrade()
TableAfterExec(h, name, hash, ret, upgraded) ==
    IF ret = "applied" THEN InsertApplied(h, name, hash) ELSE h

\* an empty registry or catalog reported as a failure
NothingToDoResult_Error == "False"

\* "No tenant databases found" / "No tenant migration files found":
\* return True
NothingToDoResult == "True"

\* the outer except clause returning True
EarlyResult_ErrorsPass(fl) == "True"

\* the returns of run_all_tenant_migrations before the loops: False for
\* missing credentials and for an exception (registry), True for an empty
\* registry or catalog
EarlyResult(fl) == IF fl = "none" THEN NothingToDoResult ELSE "False"

\* the final return without the test of failed_dbs
RunResult_AlwaysTrue(failed) == "True"

\* return len(failed_dbs) == 0
RunResult(failed) == IF Len(failed) = 0 THEN "True" ELSE "False"

\* the except clause without the try around its rollback: the exception
\* leaves the loops
OnRollbackError_Propagates(position) == "aborted"

\* except Exception as rollback_error: print(...); the loop body goes on
\* at the position after the handler
OnRollbackError(position) == position

\* a unit without upgrade() reported as done
NoUpgradeResult_ReturnsTrue == "skipped"

\* else: print("ERROR: No upgrade function found ..."); return False
NoUpgradeResult == "false"

\* DROP TABLE followed by CREATE TABLE
TableAfterCreate_Recreate(h) == <<>>

\* CREATE TABLE IF NOT EXISTS migration_history (...) on a tenant whose
\* table has the rows h (none when the table does not exist)
TableAfterCreate(h) == h

\* the loop body run again for the same tenant
NextTenant_Stay(k) == k

\* for tenant_db in tenant_dbs: the position after the current one
NextTenant(k) == k + 1

\* a connection closed at the end of the block only, not on an exception
with_exit_OnReturnOnly(opened, byException) ==
    IF byException THEN opened ELSE {}

\* leaving "with engine.connect() as connection": the connections the
\* block leaves checked out, on return and on an exception
with_exit(opened, byException) == {}

\* lst.append(x) without the membership test
AppendIfAbsent_Always(lst, x) == Append(lst, x)

\* if x not in lst: lst.append(x)
AppendIfAbsent(lst, x) == IF x \in Range(lst) THEN lst ELSE Append(lst, x)

CurTenant == tenant_dbs[j]
CurFile == migration_files[i]
InLoop == i <= Len(migration_files) /\ j <= Len(tenant_dbs)

\* ------------------------------------------------- initial setup: data
\* setup_steps of main: the printed name of a step and its function
setup_steps ==
    << [name |-> "Checking Python version", fn |-> "check_python_version"],
       [name |-> "Installing dependencies", fn |-> "install_dependencies"],
       [name |-> "Creating environment file", fn |-> "create_env_file"],
       [name |-> "Testing database connection",
        fn |-> "test_database_connection"],
       [name |-> "Running initial migrations",
        fn |-> "run_initial_migrations"],
       [name |-> "Verifying Flask application", fn |-> "verify_flask_app"] >>

databases_to_create == <<"auth", "constants">>

\* for i in range(3)
TenantCount == 3

\* the values of "db_" + "".join(random.choices(..., k=10))
RandomNames == Tenants

\* DB_USERNAME and DB_PASSWORD as os.getenv returns them after load_dotenv:
\* None (here "") without a .env file, the placeholders of env_template,
\* or the credentials the user wrote
get_db_credentials ==
    CASE env_file = "absent" -> [username |-> "", password |-> ""]
      [] env_file = "template" ->
            [username |-> "your_username", password |-> "your_password"]
      [] OTHER -> [username |-> "postgres", password |-> "password123"]

\* not username or not password or 'your_username' in username
NotConfigured(c) ==
    c.username = "" \/ c.password = "" \/ c.username = "your_username"

\* main before its first step, nothing created by this run
SetupStart ==
    /\ setup_pc = "steps"
    /\ step = 1
    /\ failed_steps = <<>>
    /\ exit_code = -1
    /\ tenant_names = <<>>
    /\ range_i = 0
    /\ executed = <<>>
    /\ outcomes = <<>>
    /\ created = {}

\* the runner before its first run
RunnerIdle ==
    /\ hasTable = [t \in Tenants |-> FALSE]
    /\ history = [t \in Tenants |-> <<>>]
    /\ schema = [t \in Tenants |-> {}]
    /\ wall = 0
    /\ pc = "idle"
    /\ runs = 0
    /\ tenant_dbs = <<>>
    /\ migration_files = <<>>
    /\ successful_dbs = <<>>
    /\ failed_dbs = <<>>
    /\ checkpoint_name = CheckpointName(0)
    /\ i = 1
    /\ j = 1
    /\ result = "none"
    /\ faults = 0
    /\ edits = 0
    /\ last = NoLast
    /\ attempts = <<>>
    /\ open_connections = {}

\* ---------------------------------------------------------------- Init
\* The runner is started on a server the setup has been made on: the
\* databases of the registry exist and hold their tables.
Init ==
    /\ companies \in Registries
    /\ catalog \in Catalogs
    /\ RunnerIdle
    /\ SetupStart
    /\ env_file = "configured"
    /\ databases = {"auth", "constants"} \cup companies
    /\ leads = companies

\* ---------------------------------------------------------------- actions
\* the versions a file can be rewritten to: a first version is revised, a
\* revision is reverted, a file without upgrade() is completed
Rewrites(c) == IF c = 1 THEN {2} ELSE {1}

\* A file of tenant_versions is written or rewritten between two runs, at
\* most one file for every run made so far.
EditFile ==
    /\ pc = "idle"
    /\ runs < MaxRuns
    /\ edits < MaxEdits
    /\ edits < runs
    /\ \E f \in FileNames, c \in Contents :
          /\ c \in IF f \in DOMAIN catalog THEN Rewrites(catalog[f])
                    ELSE {1, 3}
          /\ catalog' = [g \in DOMAIN catalog \cup {f} |->
                            IF g = f THEN c ELSE catalog[g]]
    /\ edits' = edits + 1
    /\ last' = [NoLast EXCEPT !.op = "edit"]
    /\ UNCHANGED <<setupvars, companies, dbvars, wall, pc, runs, runvars, result,
                   faults, attempts, open_connections>>

\* run_all_tenant_migrations up to its first return: missing credentials or
\* an unreachable registry (the outer except) return False, an empty
\* registry or an empty catalog return True.
StartRunReturns ==
    /\ pc = "idle"
    /\ runs < MaxRuns
    /\ \E fl \in {"none", "credentials", "registry"} :
          /\ fl # "none" => faults < MaxFaults
          /\ fl = "none" =>
                get_tenant_databases = <<>> \/ get_tenant_migration_files = <<>>
          /\ faults' = IF fl = "none" THEN faults ELSE faults + 1
          /\ result' = EarlyResult(fl)
          /\ last' = [NoLast EXCEPT !.op = "start", !.ret = fl]
          /\ open_connections' = open_connections \cup
                IF fl = "credentials" THEN {}
                ELSE with_exit({<<"registry", "auth">>}, fl = "registry")
    /\ runs' = runs + 1
    /\ tenant_dbs' = <<>>
    /\ migration_files' = <<>>
    /\ successful_dbs' = <<>>
    /\ failed_dbs' = <<>>
    /\ attempts' = <<>>
    /\ UNCHANGED <<setupvars, envvars, dbvars, wall, pc, checkpoint_name, i, j>>

\* run_all_tenant_migrations from its start to the head of the loops:
\* the registry and the catalog are read, create_migration_tracking_table
\* runs on every tenant (a failure is a warning), the result lists are
\* emptied and the checkpoint name is taken from the wall clock.
StartRun ==
    /\ pc = "idle"
    /\ runs < MaxRuns
    /\ get_tenant_databases # <<>>
    /\ get_tenant_migration_files # <<>>
    /\ \E F \in SUBSET companies :
          /\ faults + Cardinality(F) <= MaxFaults
          /\ faults' = faults + Cardinality(F)
          /\ hasTable' = [t \in Tenants |->
                             hasTable[t] \/ (t \in companies /\ t \notin F)]
          /\ history' = [t \in Tenants |->
                            IF t \in companies /\ t \notin F
                            THEN TableAfterCreate(history[t])
                            ELSE history[t]]
          /\ last' = [NoLast EXCEPT !.op = "start", !.failed = F]
          /\ open_connections' = open_connections
                \cup with_exit({<<"registry", "auth">>}, FALSE)
                \cup UNION {with_exit({<<"create_table", t>>}, t \in F) :
                               t \in companies}
    /\ LET now == IF runs = 0 THEN wall ELSE wall + 1
       IN  /\ wall' = now
           /\ checkpoint_name' = CheckpointName(now)
    /\ runs' = runs + 1
    /\ tenant_dbs' = get_tenant_databases
    /\ migration_files' = get_tenant_migration_files
    /\ successful_dbs' = <<>>
    /\ failed_dbs' = <<>>
    /\ i' = 1
    /\ j' = 1
    /\ pc' = "loop"
    /\ result' = "none"
    /\ attempts' = <<>>
    /\ UNCHANGED <<setupvars, envvars, schema>>

\* for migration_file in migration_files: the inner loop is exhausted
NextFile ==
    /\ pc = "loop"
    /\ i <= Len(migration_files)
    /\ j > Len(tenant_dbs)
    /\ i' = i + 1
    /\ j' = 1
    /\ last' = [NoLast EXCEPT !.op = "next_file"]
    /\ UNCHANGED <<setupvars, envvars, dbvars, wall, pc, runs, tenant_dbs,
                   migration_files, successful_dbs, failed_dbs,
                   checkpoint_name, result, faults, attempts,
                   open_connections>>

\* if tenant_db in failed_dbs: continue
SkipFailed ==
    /\ pc = "loop"
    /\ InLoop
    /\ AlreadyFailed(CurTenant, failed_dbs)
    /\ j' = NextTenant(j)
    /\ last' = [NoLast EXCEPT !.op = "skip_failed", !.tenant = CurTenant,
                              !.file = CurFile]
    /\ UNCHANGED <<setupvars, envvars, dbvars, wall, pc, runs, tenant_dbs,
                   migration_files, successful_dbs, failed_dbs,
                   checkpoint_name, i, result, faults, attempts,
                   open_connections>>

\* create_checkpoint(tenant_db, checkpoint_name): the row is inserted, or
\* the call raises (connection failure, or the table does not exist) and
\* control passes to the except clause of the loop body.
CreateCheckpoint ==
    /\ pc = "loop"
    /\ InLoop
    /\ ~AlreadyFailed(CurTenant, failed_dbs)
    /\ attempts' = Append(attempts, <<CurFile, CurTenant>>)
    /\ \E raises \in BOOLEAN :
          /\ raises => faults < MaxFaults
          /\ open_connections' = open_connections \cup
                with_exit({<<"create_checkpoint", CurTenant>>},
                          raises \/ ~hasTable[CurTenant])
          /\ IF raises \/ ~hasTable[CurTenant]
             THEN /\ pc' = "rollback_exc"
                  /\ faults' = IF raises THEN faults + 1 ELSE faults
                  /\ last' = [NoLast EXCEPT !.op = "checkpoint",
                                 !.tenant = CurTenant, !.file = CurFile,
                                 !.ret = "raised",
                                 !.failed = {"checkpoint"}]
                  /\ UNCHANGED history
             ELSE /\ history' = [history EXCEPT ![CurTenant] =
                        InsertCheckpoint(@, checkpoint_name)]
                  /\ pc' = "exec"
                  /\ faults' = faults
                  /\ last' = [NoLast EXCEPT !.op = "checkpoint",
                                 !.tenant = CurTenant, !.file = CurFile,
                                 !.ret = "ok"]
    /\ UNCHANGED <<setupvars, envvars, hasTable, schema, wall, runs, runvars, result>>

\* the operations of run_tenant_migration that can fail
ExecFaults == {"read", "load", "connect", "upgrade", "commit", "record"}

\* run_tenant_migration(tenant_db, migration_file) and the success branch of
\* the loop body. F is the set of operations that fail in this call.
RunTenantMigration ==
    /\ pc = "exec"
    /\ \E F \in SUBSET ExecFaults :
        LET t == CurTenant
            name == FileName(CurFile)
            c == catalog[CurFile]
            hash == get_migration_hash(c)
            applied == get_applied_migrations(t, "read" \in F)
            skip == AlreadyApplied(applied, name, hash)
            ret == IF skip THEN "skipped"
                   ELSE IF "load" \in F THEN "raised"
                   ELSE IF "connect" \in F THEN "false"
                   ELSE IF ~HasUpgrade(c) THEN NoUpgradeResult
                   ELSE IF "upgrade" \in F THEN "false"
                   ELSE IF "commit" \in F THEN "false"
                   ELSE IF "record" \in F \/ ~hasTable[t] THEN "false"
                   ELSE "applied"
            upgraded == /\ ~skip
                        /\ F \cap {"load", "connect"} = {}
                        /\ HasUpgrade(c)
            committed == upgraded /\ F \cap {"upgrade", "commit"} = {}
            \* the operations the call gets to
            performed ==
                {"read"}
                \cup (IF ~skip THEN {"load"} ELSE {})
                \cup (IF ~skip /\ "load" \notin F THEN {"connect"} ELSE {})
                \cup (IF upgraded THEN {"upgrade"} ELSE {})
                \cup (IF upgraded /\ "upgrade" \notin F
                      THEN {"commit"} ELSE {})
                \cup (IF committed THEN {"record"} ELSE {})
        IN  /\ F \subseteq performed
            /\ faults + Cardinality(F) <= MaxFaults
            /\ faults' = faults + Cardinality(F)
            /\ schema' = IF committed
                         THEN [schema EXCEPT ![t] = @ \cup {<<name, hash>>}]
                         ELSE schema
            /\ history' = [history EXCEPT ![t] =
                              TableAfterExec(@, name, hash, ret, upgraded)]
            /\ last' = [op |-> "exec", tenant |-> t, file |-> CurFile,
                        ret |-> ret, upgraded |-> upgraded,
                        committed |-> committed, failed |-> F,
                        out |-> <<>>]
            /\ open_connections' = open_connections
                  \cup with_exit({<<"get_applied_migrations", t>>},
                                 "read" \in F \/ ~hasTable[t])
                  \cup (IF "connect" \in performed
                        THEN with_exit({<<"run_tenant_migration", t>>},
                                       F \cap {"connect", "upgrade", "commit",
                                               "record"} # {}
                                          \/ (committed /\ ~hasTable[t]))
                        ELSE {})
                  \cup (IF "record" \in performed
                        THEN with_exit({<<"record_migration_success", t>>},
                                       "record" \in F \/ ~hasTable[t])
                        ELSE {})
            /\ IF ret \in {"skipped", "applied"}
               THEN /\ successful_dbs' = AppendIfAbsent(successful_dbs, t)
                    /\ j' = NextTenant(j)
                    /\ pc' = "loop"
               ELSE /\ pc' = IF ret = "raised" THEN "rollback_exc"
                             ELSE "rollback"
                    /\ UNCHANGED <<successful_dbs, j>>
    /\ UNCHANGED <<setupvars, envvars, hasTable, wall, runs, tenant_dbs, migration_files,
                   failed_dbs, checkpoint_name, i, result, attempts>>

\* else branch of the loop body: rollback_to_checkpoint, then the tenant is
\* appended to failed_dbs. A raising rollback passes control to the except
\* clause.
Rollback ==
    /\ pc = "rollback"
    /\ \E raises \in BOOLEAN :
          /\ raises => faults < MaxFaults
          /\ open_connections' = open_connections \cup
                with_exit({<<"rollback_to_checkpoint", CurTenant>>},
                          raises \/ ~hasTable[CurTenant])
          /\ IF raises \/ ~hasTable[CurTenant]
             THEN /\ pc' = "rollback_exc"
                  /\ faults' = IF raises THEN faults + 1 ELSE faults
                  /\ last' = [NoLast EXCEPT !.op = "rollback",
                                 !.tenant = CurTenant, !.file = CurFile,
                                 !.ret = "raised", !.failed = {"rollback"}]
                  /\ UNCHANGED <<history, failed_dbs, j>>
             ELSE /\ history' = [history EXCEPT ![CurTenant] =
                                    RollbackTable(@, checkpoint_name)]
                  /\ failed_dbs' = AppendIfAbsent(failed_dbs, CurTenant)
                  /\ j' = NextTenant(j)
                  /\ pc' = "loop"
                  /\ faults' = faults
                  /\ last' = [NoLast EXCEPT !.op = "rollback",
                                 !.tenant = CurTenant, !.file = CurFile,
                                 !.ret = RollbackReturns(history[CurTenant],
                                                         checkpoint_name)]
    /\ UNCHANGED <<setupvars, envvars, hasTable, schema, wall, runs, tenant_dbs,
                   migration_files, successful_dbs, checkpoint_name, i,
                   result, attempts>>

\* except clause of the loop body: rollback_to_checkpoint under its own
\* try/except, then the tenant is appended to failed_dbs.
RollbackInExcept ==
    /\ pc = "rollback_exc"
    /\ \E raises \in BOOLEAN :
          /\ raises => faults < MaxFaults
          /\ open_connections' = open_connections \cup
                with_exit({<<"rollback_to_checkpoint", CurTenant>>},
                          raises \/ ~hasTable[CurTenant])
          /\ IF raises \/ ~hasTable[CurTenant]
             THEN /\ faults' = IF raises THEN faults + 1 ELSE faults
                  /\ last' = [NoLast EXCEPT !.op = "rollback_exc",
                                 !.tenant = CurTenant, !.file = CurFile,
                                 !.ret = "raised", !.failed = {"rollback"}]
                  /\ pc' = OnRollbackError("loop")
                  /\ UNCHANGED history
             ELSE /\ history' = [history EXCEPT ![CurTenant] =
                                    RollbackTable(@, checkpoint_name)]
                  /\ faults' = faults
                  /\ last' = [NoLast EXCEPT !.op = "rollback_exc",
                                 !.tenant = CurTenant, !.file = CurFile,
                                 !.ret = RollbackReturns(history[CurTenant],
                                                         checkpoint_name)]
                  /\ pc' = "loop"
    /\ failed_dbs' = AppendIfAbsent(failed_dbs, CurTenant)
    /\ j' = NextTenant(j)
    /\ UNCHANGED <<setupvars, envvars, hasTable, schema, wall, runs, tenant_dbs,
                   migration_files, successful_dbs, checkpoint_name, i,
                   result, attempts>>

\* the loops are exhausted: the summary is printed and the run returns
\* len(failed_dbs) == 0
Summary ==
    /\ pc = "loop"
    /\ i > Len(migration_files)
    /\ result' = RunResult(failed_dbs)
    /\ pc' = "idle"
    /\ last' = [NoLast EXCEPT !.op = "summary"]
    /\ UNCHANGED <<setupvars, envvars, dbvars, wall, runs, runvars, faults, attempts,
                   open_connections>>

\* show_migration_history (--history): for every tenant of the registry the
\* rows returned by get_applied_migrations are printed; R is the set of
\* tenants whose read fails, a registry that cannot be read prints an error.
\* The command is followed up to the last run.
ShowHistory ==
    /\ pc = "idle"
    /\ runs < MaxRuns
    /\ \E registryFails \in BOOLEAN, R \in SUBSET companies :
          /\ registryFails => R = {}
          /\ faults + Cardinality(R) + (IF registryFails THEN 1 ELSE 0)
                <= MaxFaults
          /\ faults' = faults + Cardinality(R)
                          + (IF registryFails THEN 1 ELSE 0)
          /\ last' = IF registryFails
                     THEN [NoLast EXCEPT !.op = "history",
                                         !.ret = "registry"]
                     ELSE [NoLast EXCEPT !.op = "history", !.ret = "ok",
                              !.failed = R,
                              !.out = [k \in DOMAIN get_tenant_databases |->
                                 LET t == get_tenant_databases[k]
                                 IN <<t, get_applied_migrations(t, t \in R)>>]]
          /\ open_connections' = open_connections
                \cup with_exit({<<"registry", "auth">>}, registryFails)
                \cup (IF registryFails THEN {}
                      ELSE UNION {with_exit({<<"get_applied_migrations", t>>},
                                            t \in R \/ ~hasTable[t]) :
                                     t \in companies})
    /\ UNCHANGED <<setupvars, envvars, dbvars, wall, pc, runs, runvars, result,
                   attempts>>

Next ==
    \/ ShowHistory
    \/ EditFile
    \/ StartRunReturns
    \/ StartRun
    \/ NextFile
    \/ SkipFailed
    \/ CreateCheckpoint
    \/ RunTenantMigration
    \/ Rollback
    \/ RollbackInExcept
    \/ Summary

Spec == Init /\ [][Next]_vars

\* one step of the orchestrator's loops
RunStep ==
    \/ NextFile
    \/ SkipFailed
    \/ CreateCheckpoint
    \/ RunTenantMigration
    \/ Rollback
    \/ RollbackInExcept
    \/ Summary

\* run_all_tenant_migrations is sequential code: once started it keeps
\* taking steps (every database call returns or raises)
FairSpec == Spec /\ WF_vars(RunStep)

\* sys.exit(0 if success else 1)
ExitCode == IF result = "True" THEN 0 ELSE 1

\* ---------------------------------------------- initial setup: actions
\* everything of the runner; auth.companies is shared with the setup
migrationvars == <<catalog, dbvars, wall, pc, runs, runvars, result, faults,
                   edits, last, attempts, open_connections>>

StepFailed_ReturnOnly(outcome) == outcome = "False"

\* main's loop body: the step is appended to failed_steps when its function
\* returns a false value ("if not step_function()") or raises ("except
\* Exception")
StepFailed(outcome) == outcome # "True"

\* the loop of main is at the step whose function is fn
AtStep(fn) ==
    /\ setup_pc = "steps"
    /\ step <= Len(setup_steps)
    /\ setup_steps[step].fn = fn

\* one iteration of main's loop, whose call ended with outcome
StepDone(outcome) ==
    /\ failed_steps' = IF StepFailed(outcome)
                       THEN Append(failed_steps, setup_steps[step].name)
                       ELSE failed_steps
    /\ executed' = Append(executed, setup_steps[step].fn)
    /\ outcomes' = Append(outcomes, outcome)
    /\ step' = step + 1

\* check_python_version: False below Python 3.8
CheckPythonVersion ==
    /\ AtStep("check_python_version")
    /\ \E outcome \in {"True", "False"} : StepDone(outcome)
    /\ UNCHANGED <<companies, migrationvars, setup_pc, exit_code, env_file,
                   databases, leads, tenant_names, range_i, created>>

\* install_dependencies: False without requirements.txt or when pip exits
\* with an error (CalledProcessError); any other exception of
\* subprocess.run leaves the function
InstallDependencies ==
    /\ AtStep("install_dependencies")
    /\ \E outcome \in {"True", "False", "raise"} : StepDone(outcome)
    /\ UNCHANGED <<companies, migrationvars, setup_pc, exit_code, env_file,
                   databases, leads, tenant_names, range_i, created>>

\* create_env_file: an existing .env is kept; otherwise env_template is
\* written, and False is returned when the write fails
CreateEnvFile ==
    /\ AtStep("create_env_file")
    /\ \E written \in BOOLEAN :
          IF env_file # "absent"
          THEN /\ written
               /\ StepDone("True")
               /\ UNCHANGED env_file
          ELSE /\ env_file' = IF written THEN "template" ELSE env_file
               /\ StepDone(IF written THEN "True" ELSE "False")
    /\ UNCHANGED <<companies, migrationvars, setup_pc, exit_code, databases,
                   leads, tenant_names, range_i, created>>

\* test_database_connection: True with a warning without credentials;
\* otherwise True when SELECT version() answers and False on any exception
TestDatabaseConnection ==
    /\ AtStep("test_database_connection")
    /\ \E connected \in BOOLEAN :
          IF NotConfigured(get_db_credentials)
          THEN connected /\ StepDone("True")
          ELSE StepDone(IF connected THEN "True" ELSE "False")
    /\ UNCHANGED <<companies, migrationvars, setup_pc, exit_code, env_file,
                   databases, leads, tenant_names, range_i, created>>

\* the databases that exist when the loop over databases_to_create stops
\* before entry k ("already exists" is passed over, any other error is
\* raised again)
AfterCreate(k) ==
    databases \cup {databases_to_create[m] : m \in 1..(k - 1)}

\* run_initial_migrations up to the loop that creates the tenant databases.
\* Without credentials it returns True at once. Otherwise fl is the place
\* where an exception ends it with False: the imports, the test connection,
\* a CREATE DATABASE of the system databases, one of the two
\* command.upgrade calls; with "none" the function goes on.
RunInitialMigrations ==
    /\ AtStep("run_initial_migrations")
    /\ IF NotConfigured(get_db_credentials)
       THEN /\ StepDone("True")
            /\ UNCHANGED <<setup_pc, databases, tenant_names, range_i>>
       ELSE \E fl \in {"none", "import", "connect", "create", "upgrade"} :
              CASE fl \in {"import", "connect"} ->
                      /\ StepDone("False")
                      /\ UNCHANGED <<setup_pc, databases, tenant_names,
                                     range_i>>
                [] fl = "create" ->
                      \E k \in DOMAIN databases_to_create :
                         /\ databases_to_create[k] \notin databases
                         /\ databases' = AfterCreate(k)
                         /\ StepDone("False")
                         /\ UNCHANGED <<setup_pc, tenant_names, range_i>>
                [] fl = "upgrade" ->
                      /\ databases' =
                            AfterCreate(Len(databases_to_create) + 1)
                      /\ StepDone("False")
                      /\ UNCHANGED <<setup_pc, tenant_names, range_i>>
                [] OTHER ->
                      /\ databases' =
                            AfterCreate(Len(databases_to_create) + 1)
                      /\ setup_pc' = "tenants"
                      /\ tenant_names' = <<>>
                      /\ range_i' = 0
                      /\ UNCHANGED <<step, failed_steps, executed, outcomes>>
    /\ UNCHANGED <<companies, migrationvars, exit_code, env_file, leads,
                   created>>

AppendCreated_Always(names, name, ok) == Append(names, name)

\* tenant_names.append(tenant_name) is reached only when the with block
\* around CREATE DATABASE ended without an exception
AppendCreated(names, name, ok) == IF ok THEN Append(names, name) ELSE names

\* one iteration of "for i in range(3)": a random name is drawn and CREATE
\* DATABASE is executed for it; it fails when a database of that name
\* exists and may fail for any other reason, the error is printed and the
\* loop goes on
CreateTenantDatabase ==
    /\ setup_pc = "tenants"
    /\ range_i < TenantCount
    /\ \E tenant_name \in RandomNames, fails \in BOOLEAN :
          LET ok == tenant_name \notin databases /\ ~fails
          IN /\ (tenant_name \in databases) => ~fails
             /\ databases' = IF ok THEN databases \cup {tenant_name}
                             ELSE databases
             /\ created' = IF ok THEN created \cup {tenant_name}
                           ELSE created
             /\ tenant_names' = AppendCreated(tenant_names, tenant_name, ok)
    /\ range_i' = range_i + 1
    /\ UNCHANGED <<companies, migrationvars, setup_pc, step, failed_steps,
                   exit_code, env_file, leads, executed, outcomes>>

\* the rest of run_initial_migrations. The migration module is loaded
\* (fl = "load": it cannot be, False). For every tenant of tenant_names the
\* table leads is created, T are the tenants it fails for (printed, the
\* loop goes on). Then auth is connected (fl = "auth": False) and one row
\* per tenant of tenant_names is inserted into companies, R are the tenants
\* whose INSERT fails (printed, the loop goes on); the rows are kept by the
\* commit (fl = "commit": it fails, False).
RegisterTenants ==
    /\ setup_pc = "tenants"
    /\ range_i = TenantCount
    /\ \E fl \in {"none", "load", "auth", "commit"},
          T \in SUBSET Range(tenant_names),
          R \in SUBSET Range(tenant_names) :
          /\ fl = "load" => T = {}
          /\ fl # "none" => R = {}
          /\ leads' = IF fl = "load" THEN leads
                      ELSE leads \cup (Range(tenant_names) \ T)
          /\ companies' = IF fl = "none"
                          THEN companies \cup (Range(tenant_names) \ R)
                          ELSE companies
          /\ StepDone(IF fl = "none" THEN "True" ELSE "False")
    /\ setup_pc' = "steps"
    /\ UNCHANGED <<migrationvars, exit_code, env_file, databases,
                   tenant_names, range_i, created>>

\* verify_flask_app: False when "import app" raises
VerifyFlaskApp ==
    /\ AtStep("verify_flask_app")
    /\ \E outcome \in {"True", "False"} : StepDone(outcome)
    /\ UNCHANGED <<companies, migrationvars, setup_pc, exit_code, env_file,
                   databases, leads, tenant_names, range_i, created>>

\* the end of main: 1 when failed_steps is not empty, 0 otherwise
MainReturn ==
    /\ setup_pc = "steps"
    /\ step > Len(setup_steps)
    /\ exit_code' = IF failed_steps # <<>> THEN 1 ELSE 0
    /\ setup_pc' = "exit"
    /\ UNCHANGED <<companies, migrationvars, step, failed_steps, env_file,
                   databases, leads, tenant_names, range_i, executed,
                   outcomes, created>>

\* the servers the setup is run on: an empty one, one that holds the system
\* databases, one a tenant was created and registered on before
Servers ==
    { [databases |-> {}, companies |-> {}],
      [databases |-> {"auth"}, companies |-> {}],
      [databases |-> {"auth", "constants"}, companies |-> {}],
      [databases |-> {"auth", "constants", "db_aaa"},
       companies |-> {"db_aaa"}] }

SetupInit ==
    /\ \E s \in Servers :
          /\ databases = s.databases
          /\ companies = s.companies
          /\ leads = s.companies
    /\ env_file \in {"absent", "template", "configured"}
    /\ catalog = [f \in {1} |-> 1]
    /\ RunnerIdle
    /\ SetupStart

SetupNext ==
    \/ CheckPythonVersion
    \/ InstallDependencies
    \/ CreateEnvFile
    \/ TestDatabaseConnection
    \/ RunInitialMigrations
    \/ CreateTenantDatabase
    \/ RegisterTenants
    \/ VerifyFlaskApp
    \/ MainReturn

SetupSpec == SetupInit /\ [][SetupNext]_vars

TypeOK ==
    /\ pc \in {"idle", "loop", "exec", "rollback", "rollback_exc"}
    /\ result \in {"none", "True", "False"}
    /\ faults \in 0..MaxFaults
    /\ runs \in 0..MaxRuns
    /\ setup_pc \in {"steps", "tenants", "exit"}
    /\ step \in 1..(Len(setup_steps) + 1)
    /\ exit_code \in {-1, 0, 1}
    /\ range_i \in 0..TenantCount

\* ---------------------------------------------------------------- claims
\* the table h holds a row with status 'applied' for (name, hash)
HoldsAppliedIn(h, name, hash) ==
    \E k \in DOMAIN h :
        /\ h[k].file = name
        /\ h[k].hash = hash
        /\ h[k].status = "applied"

\* the tenant holds a row with status 'applied' for (name, hash)
HoldsApplied(t, name, hash) == HoldsAppliedIn(history[t], name, hash)

\* the unit the executor is called with
CurName == FileName(CurFile)
CurHash == get_migration_hash(catalog[CurFile])

\* the operations of the loop body that work on a tenant
TenantOps == {"checkpoint", "exec", "rollback", "rollback_exc"}

NoDuplicates(s) == \A k, m \in DOMAIN s : k # m => s[k] # s[m]

\* rows of the tenant's table that the step appended
NewRows(t) == {k \in DOMAIN history'[t] : k > Len(history[t])}

C1_Step ==
    (pc = "exec" /\ HoldsApplied(CurTenant, CurName, CurHash)) =>
        /\ last'.ret = "skipped"
        /\ ~last'.upgraded
        /\ history' = history

\* C1: a call of run_tenant_migration for a unit the tenant already holds an
\* 'applied' row for (same file name, same content hash) returns through the
\* skip path: upgrade() is not executed and no row is inserted.
C1_SecondCallSkips == [][C1_Step]_vars

\* C2: no tenant's migration_history ever holds two rows with status
\* 'applied' for the same (migration_file, migration_hash).
C2_OneAppliedRowPerHash ==
    \A t \in Tenants : \A k, m \in DOMAIN history[t] :
        (/\ k # m
         /\ history[t][k].status = "applied"
         /\ history[t][m].status = "applied"
         /\ history[t][k].file = history[t][m].file)
        => history[t][k].hash # history[t][m].hash

C3_Step ==
    (pc = "exec" /\ HoldsApplied(CurTenant, CurName, CurHash)) =>
        ~last'.upgraded

\* C3: upgrade() is never executed against a tenant that holds an 'applied'
\* row with the unit's file name and content hash.
C3_NoUpgradeWhenApplied == [][C3_Step]_vars

C4_Step ==
    pc = "exec" =>
        /\ (last'.ret = "skipped") = HoldsApplied(CurTenant, CurName, CurHash)
        /\ (last'.ret = "applied") =>
              (/\ Len(history'[CurTenant]) = Len(history[CurTenant]) + 1
               /\ history'[CurTenant][Len(history'[CurTenant])] =
                     Row(CurName, CurHash, Len(history[CurTenant]) + 1,
                         "applied"))

\* C4: the executor skips exactly when the tenant holds an 'applied' row
\* matching the unit's name and hash; a unit that is not skipped and is
\* applied gets a new 'applied' row of its own.
C4_SkipIffNameAndHashMatch == [][C4_Step]_vars

C5_Step ==
    /\ (pc # "idle") =>
          (\A t \in Range(failed_dbs) :
              /\ history'[t] = history[t]
              /\ schema'[t] = schema[t]
              /\ (last'.op \in TenantOps) => (last'.tenant # t)
              /\ \A f \in FileNames :
                    (<<f, t>> \in Range(attempts')) =>
                        (<<f, t>> \in Range(attempts)))
    /\ (last'.op = "summary") =>
          (\A t \in Range(tenant_dbs') \ Range(failed_dbs') :
              \A f \in Range(migration_files') :
                  <<f, t>> \in Range(attempts'))

\* C5: during a run nothing is done on a tenant of failed_dbs (no
\* checkpoint, no apply, no rollback, no change of its database), and when
\* the summary is reached every tenant that did not fail has been attempted
\* for every unit.
C5_Isolation == [][C5_Step]_vars

\* C5 witness: a summary of a run of two units in which one tenant failed at
\* the first unit and was left alone at the second, and another tenant was
\* attempted for both.
C5_Witness ==
    /\ last.op = "summary"
    /\ Len(migration_files) = 2
    /\ \E t \in Range(failed_dbs) :
          /\ <<migration_files[1], t>> \in Range(attempts)
          /\ <<migration_files[2], t>> \notin Range(attempts)
    /\ \E t \in Range(tenant_dbs) \ Range(failed_dbs) :
          \A f \in Range(migration_files) : <<f, t>> \in Range(attempts)

\* C6: no tenant is in successful_dbs and in failed_dbs at the same time.
C6_Disjoint ==
    Range(successful_dbs) \cap Range(failed_dbs) = {}

C7_Step ==
    /\ (pc \in {"rollback", "rollback_exc"}) =>
          (/\ \A k \in DOMAIN history[CurTenant] :
                 (/\ history[CurTenant][k].status = "applied"
                  /\ history[CurTenant][k].file # CurName)
                 => (history'[CurTenant][k].status = "applied")
           /\ ~HoldsAppliedIn(history'[CurTenant], CurName, CurHash))
    /\ (last'.op = "summary") =>
          (\A t \in Range(tenant_dbs') \ Range(failed_dbs') :
              \A f \in Range(migration_files') :
                  HoldsAppliedIn(history'[t], FileName(f),
                                 get_migration_hash(catalog[f])))

\* C7: the rollback that follows a tenant's failure at a unit leaves the
\* 'applied' rows of the other units 'applied' and leaves the tenant without
\* an 'applied' row for the failed unit; at the summary every tenant that
\* did not fail holds an 'applied' row for every unit of the catalog.
C7_ProgressPreserved == [][C7_Step]_vars

C8_Step ==
    (pc \in {"rollback", "rollback_exc"}) =>
        LET t == CurTenant
            h == history[t]
            g == history'[t]
            cps == {m \in DOMAIN h : /\ h[m].status = "checkpoint"
                                     /\ h[m].file = checkpoint_name}
            after(k) == \A m \in cps : h[k].at > h[m].at
        IN  /\ \A u \in Tenants \ {t} : history'[u] = history[u]
            /\ schema' = schema
            /\ Len(g) = Len(h)
            /\ \A k \in DOMAIN h :
                  /\ g[k].file = h[k].file
                  /\ g[k].hash = h[k].hash
                  /\ g[k].at = h[k].at
                  /\ (g[k].status # h[k].status) =>
                        (/\ h[k].status = "applied"
                         /\ g[k].status = "rolled_back"
                         /\ cps # {}
                         /\ after(k))
                  /\ (/\ last'.ret = "true"
                      /\ h[k].status = "applied"
                      /\ after(k)) => (g[k].status = "rolled_back")

\* C8: a call of rollback_to_checkpoint changes nothing but the status of
\* rows of the tenant it is called for; a status changes only from
\* 'applied' to 'rolled_back' and only for a row whose applied_at is after
\* that of every 'checkpoint' row of the given name; when the call returns
\* True every such row is changed.
C8_RollbackScoping == [][C8_Step]_vars

\* C8 witness: a rollback returned True, changed a row to 'rolled_back' and
\* left an older 'applied' row of the same tenant as it was.
C8_Witness ==
    /\ last.op \in {"rollback", "rollback_exc"}
    /\ last.ret = "true"
    /\ \E k, m \in DOMAIN history[last.tenant] :
          /\ history[last.tenant][k].status = "rolled_back"
          /\ history[last.tenant][m].status = "applied"
          /\ m < k

C9_Step ==
    /\ (last'.op = "exec") =>
          (/\ last.op = "checkpoint"
           /\ last.ret = "ok"
           /\ last.tenant = last'.tenant
           /\ last.file = last'.file
           /\ history[CurTenant][Len(history[CurTenant])] =
                 Row(checkpoint_name, CheckpointHash,
                     Len(history[CurTenant]), "checkpoint"))
    /\ NoDuplicates(attempts')
    /\ (pc # "idle") => (checkpoint_name' = checkpoint_name)
    /\ \A t \in Tenants :
          LET cp == {k \in NewRows(t) : history'[t][k].status = "checkpoint"}
          IN  /\ \A k \in cp : history'[t][k].file = checkpoint_name'
              /\ Cardinality(cp) =
                    IF /\ last'.op = "checkpoint"
                       /\ last'.ret = "ok"
                       /\ last'.tenant = t
                    THEN 1 ELSE 0

\* C9: run_tenant_migration is only entered right after create_checkpoint
\* has appended a 'checkpoint' row for the same unit and tenant; a pair of
\* unit and tenant is attempted once in a run; a successful
\* create_checkpoint appends exactly one 'checkpoint' row, no other step
\* appends one, and within a run every such row carries the run's
\* checkpoint name, which does not change during the run.
C9_CheckpointPerAttempt == [][C9_Step]_vars

\* C9 witness: an attempt that ended in the skip path, in a table whose
\* last row is the checkpoint written for that attempt.
C9_Witness ==
    /\ last.op = "exec"
    /\ last.ret = "skipped"
    /\ LET h == history[last.tenant]
       IN  /\ h[Len(h)].status = "checkpoint"
           /\ h[Len(h)].file = checkpoint_name

C10_Step ==
    pc = "exec" =>
        /\ (pc' \in {"rollback", "rollback_exc"}) =>
              (schema' = schema /\ ~last'.committed)
        /\ (schema' # schema \/ last'.committed) =>
              (/\ last'.ret = "applied"
               /\ HoldsAppliedIn(history'[CurTenant], CurName, CurHash))

\* C10: a call of run_tenant_migration that returns failure (or raises) has
\* committed no schema change, and a call that committed a schema change
\* returns success and leaves an 'applied' row for the unit.
C10_ExecutorAtomic == [][C10_Step]_vars

C11_Step ==
    (pc = "exec" /\ pc' \in {"rollback", "rollback_exc"}) =>
        /\ history' = history
        /\ hasTable' = hasTable
        /\ LET h == history'[CurTenant]
           IN  /\ Len(h) > 0
               /\ h[Len(h)] = Row(checkpoint_name, CheckpointHash, Len(h),
                                  "checkpoint")

\* C11: a call of run_tenant_migration that returns False (or raises) adds
\* no row to and changes no row of any tracking table, and the 'checkpoint'
\* row written by create_checkpoint just before it is still the last row of
\* the tenant's table.
C11_FailedExecWritesNoRow == [][C11_Step]_vars

\* C11 witness: upgrade() ran, the call returned False, and the last row of
\* the tenant's table is the checkpoint of this attempt, after earlier rows.
C11_Witness ==
    /\ pc = "rollback"
    /\ last.op = "exec"
    /\ last.ret = "false"
    /\ last.upgraded
    /\ LET h == history[last.tenant]
       IN  /\ Len(h) > 1
           /\ h[Len(h)].status = "checkpoint"
           /\ h[Len(h)].file = checkpoint_name

\* a row after a step: unchanged, or 'applied' turned into 'rolled_back'
RowKept(old, new) ==
    \/ new = old
    \/ /\ old.status = "applied"
       /\ new = [old EXCEPT !.status = "rolled_back"]

C12_Step ==
    /\ \A t \in Tenants :
          /\ hasTable[t] => hasTable'[t]
          /\ Len(history'[t]) >= Len(history[t])
          /\ \A k \in DOMAIN history[t] :
                RowKept(history[t][k], history'[t][k])
    /\ (pc \in {"rollback", "rollback_exc"}) =>
          /\ schema' = schema
          /\ hasTable' = hasTable
          /\ \A t \in Tenants : Len(history'[t]) = Len(history[t])

\* C12: no step removes a row of a tracking table or a tracking table; the
\* only change of an existing row is its status going from 'applied' to
\* 'rolled_back', so 'checkpoint' and 'rolled_back' rows never change; a
\* rollback step adds no row and leaves the tenants' schemas alone.
C12_AppendOnly == [][C12_Step]_vars

\* C12 witness: after a rollback that found its checkpoint, the table holds
\* a 'rolled_back' row while the tenant's schema still has the changes of
\* the units that were committed.
C12_Witness ==
    /\ last.op \in {"rollback", "rollback_exc"}
    /\ last.ret = "true"
    /\ schema[last.tenant] # {}
    /\ \E k \in DOMAIN history[last.tenant] :
          history[last.tenant][k].status = "rolled_back"

\* the pair a of unit and tenant comes before the pair b: an earlier file
\* name, or the same file and an earlier tenant identifier
AttemptBefore(a, b) ==
    \/ a[1] < b[1]
    \/ a[1] = b[1] /\ TenantRank[a[2]] < TenantRank[b[2]]

\* C13: the attempts of a run are made in ascending order of file name and,
\* for one file, in ascending order of tenant identifier: every attempt of
\* a unit precedes every attempt of a later unit, and the attempts on one
\* tenant follow the order of the catalog.
C13_AttemptOrder ==
    \A p, q \in DOMAIN attempts :
        p < q => AttemptBefore(attempts[p], attempts[q])

\* C13 witness: a run that attempted both units on both tenants.
C13_Witness ==
    /\ last.op = "summary"
    /\ Len(attempts) = 4
    /\ attempts[1] = <<1, "db_aaa">>
    /\ attempts[4] = <<2, "db_bbb">>

C14_Step ==
    /\ (pc = "loop" /\ pc' = "idle") =>
          ((result' = "True") <=> (Len(failed_dbs') = 0))
    /\ (result' # "none") =>
          ((ExitCode' = 0) <=> (result' = "True"))
    /\ (pc' = "idle" /\ result' # "none" /\ Len(failed_dbs') > 0) =>
          (ExitCode' = 1)
    /\ (runs' = runs + 1 /\ last'.ret = "registry") => (ExitCode' = 1)

\* C14: a run that reaches the summary returns True exactly when failed_dbs
\* is empty; the exit code is 0 exactly when the run returned True, and it
\* is 1 when a tenant ended in failed_dbs or the registry could not be read.
C14_ResultIffNoFailed == [][C14_Step]_vars

\* C14 witness: a summary with one tenant successful and one failed, exit
\* code 1.
C14_Witness ==
    /\ last.op = "summary"
    /\ result = "False"
    /\ Len(failed_dbs) > 0
    /\ Len(successful_dbs) > 0
    /\ ExitCode = 1

\* a step of the loops in which an operation on the current tenant failed
FailureStep ==
    /\ pc \in {"loop", "exec", "rollback", "rollback_exc"}
    /\ pc' # pc
    /\ last'.op \in TenantOps
    /\ last'.ret \in {"raised", "false"}

C15_Step ==
    /\ (pc # "idle") =>
          (pc' \in {"idle", "loop", "exec", "rollback", "rollback_exc"})
    /\ (pc # "idle" /\ pc' = "idle") =>
          (/\ last'.op = "summary"
           /\ i > Len(migration_files)
           /\ \A f \in Range(migration_files), t \in Range(tenant_dbs) :
                 (t \notin Range(failed_dbs')) =>
                     (<<f, t>> \in Range(attempts')))
    /\ (runs' = runs + 1 /\ last'.failed # {} /\ last'.ret = "") =>
          (pc' = "loop")
    /\ FailureStep =>
          (/\ pc' \in {"loop", "rollback", "rollback_exc"}
           /\ i' = i
           /\ j' \in {j, j + 1}
           /\ tenant_dbs' = tenant_dbs
           /\ migration_files' = migration_files)

\* C15: a failure of an operation on one tenant (creation of the tracking
\* table, checkpoint, loading, upgrade, record, rollback, and the rollback
\* inside the exception handler) keeps the run inside its loops at the same
\* unit and at this or the next tenant; a run only ends through the summary,
\* where every tenant outside failed_dbs has been attempted for every unit;
\* and every run that has entered the loops reaches the summary.
C15_NoAbort ==
    /\ [][C15_Step]_vars
    /\ (pc # "idle") ~> (last.op = "summary")

\* C15 witness: the summary of a run in which the first tenant failed at
\* the first unit and the second tenant was still attempted for both units.
C15_Witness ==
    /\ last.op = "summary"
    /\ failed_dbs = <<"db_aaa">>
    /\ <<1, "db_aaa">> \in Range(attempts)
    /\ <<2, "db_aaa">> \notin Range(attempts)
    /\ <<1, "db_bbb">> \in Range(attempts)
    /\ <<2, "db_bbb">> \in Range(attempts)

C16_Step ==
    (pc = "idle" /\ runs' = runs + 1 /\ last'.ret = "registry") =>
        /\ result' = "False"
        /\ ExitCode' = 1
        /\ pc' = "idle"
        /\ hasTable' = hasTable
        /\ history' = history
        /\ schema' = schema
        /\ attempts' = <<>>

\* C16: when get_tenant_databases raises, the run returns False (exit code
\* 1) without entering the loops, and no tracking table, tracking row or
\* schema of any tenant has changed.
C16_RegistryUnreachable == [][C16_Step]_vars

\* C16 witness: a run over a registry with tenants and a catalog with units
\* that ended on the registry failure, no tenant having a tracking table.
C16_Witness ==
    /\ last.op = "start"
    /\ last.ret = "registry"
    /\ result = "False"
    /\ companies # {}
    /\ DOMAIN catalog # {}
    /\ \A t \in Tenants : ~hasTable[t] /\ history[t] = <<>>

C17_Step ==
    (/\ pc \in {"loop", "exec"}
     /\ pc' # pc
     /\ last'.op \in {"checkpoint", "exec"}
     /\ \/ ~hasTable[CurTenant]
        \/ last'.failed \cap {"checkpoint", "read"} # {}) =>
        /\ ~last'.upgraded
        /\ schema' = schema
        /\ pc' \in {"rollback", "rollback_exc"}

\* C17: when the tracking table of the current tenant is missing, or
\* create_checkpoint or the read of get_applied_migrations fails on it, no
\* upgrade() is executed against the tenant in that step and the step leads
\* to the rollback that puts the tenant into failed_dbs.
C17_StoreUnavailable == [][C17_Step]_vars

C18_Step ==
    (/\ pc \in {"rollback", "rollback_exc"}
     /\ pc' # pc
     /\ last'.ret # "raised"
     /\ CheckpointRows(history[CurTenant], checkpoint_name) = {}) =>
        /\ last'.ret = "false"
        /\ history' = history
        /\ schema' = schema
        /\ CurTenant \in Range(failed_dbs')
        /\ pc' = "loop"
        /\ j' = j + 1

\* C18: a call of rollback_to_checkpoint that finds no 'checkpoint' row of
\* the run's checkpoint name in the tenant's table returns False and
\* changes no row; the tenant is appended to failed_dbs and the inner loop
\* goes on with the next tenant.
C18_RollbackWithoutCheckpoint == [][C18_Step]_vars

\* C18 witness: a rollback returned False on a table that holds an
\* 'applied' row of an earlier run, and the tenant is in failed_dbs.
C18_Witness ==
    /\ last.op \in {"rollback", "rollback_exc"}
    /\ last.ret = "false"
    /\ pc = "loop"
    /\ last.tenant \in Range(failed_dbs)
    /\ \E k \in DOMAIN history[last.tenant] :
          history[last.tenant][k].status = "applied"

C19_Step ==
    (pc = "idle" /\ runs' = runs + 1 /\ DOMAIN catalog = {}) =>
        /\ pc' = "idle"
        /\ hasTable' = hasTable
        /\ history' = history
        /\ schema' = schema
        /\ (last'.ret = "none") => (result' = "True" /\ ExitCode' = 0)

\* C19: a run over an empty (or absent) catalog whose credentials and
\* registry are available returns True, and no run over an empty catalog
\* creates a tracking table, writes a tracking row or changes a schema.
C19_EmptyCatalog == [][C19_Step]_vars

\* C19 witness: a run over a non-empty registry and an empty catalog that
\* returned True.
C19_Witness ==
    /\ last.op = "start"
    /\ last.ret = "none"
    /\ result = "True"
    /\ companies # {}
    /\ DOMAIN catalog = {}

\* the rows of t's table with status 'applied', in the order of applied_at;
\* none when the table does not exist
AppliedRows(t) ==
    IF hasTable[t]
    THEN SelectSeq(history[t], LAMBDA r : r.status = "applied")
    ELSE <<>>

C20_Step ==
    (last'.op = "history" /\ last'.ret = "ok") =>
        /\ Len(last'.out) = Cardinality(companies)
        /\ \A k \in DOMAIN last'.out :
              LET t == last'.out[k][1]
                  rows == last'.out[k][2]
              IN  /\ t \in companies
                  /\ rows = AppliedRows(t)
                  /\ \A m, n \in DOMAIN rows :
                        m < n => rows[m].at < rows[n].at

\* C20: the history command prints, for every tenant of the registry, what
\* get_applied_migrations returns, and that is exactly the tenant's rows
\* with status 'applied' in ascending order of applied_at, the empty
\* sequence for a tenant without tracking table.
C20_AppliedRowsExactly == [][C20_Step]_vars

C21_Step ==
    /\ (pc # "idle") =>
          (/\ Range(failed_dbs) \subseteq Range(failed_dbs')
           /\ \A t \in Range(failed_dbs) :
                 (t \in Range(successful_dbs')) =>
                     (t \in Range(successful_dbs)))
    /\ (pc \in {"rollback", "rollback_exc"} /\ pc' # pc) =>
          (/\ last.op \in {"checkpoint", "exec"}
           /\ pc' = "loop"
           /\ CurTenant \in Range(failed_dbs')
           /\ j' = j + 1)

\* C21: during a run no tenant leaves failed_dbs and no tenant of failed_dbs
\* is appended to successful_dbs; a call of rollback_to_checkpoint directly
\* follows the failed create_checkpoint or run_tenant_migration (it is the
\* only one for that failure), and it is followed by the tenant being in
\* failed_dbs and the loop moving to the next tenant.
C21_FailedTerminalOneRollback == [][C21_Step]_vars

\* every unit of the catalog has its matching 'applied' row on every tenant
\* of the registry
AllApplied ==
    \A t \in companies, f \in DOMAIN catalog :
        HoldsApplied(t, FileName(f), get_migration_hash(catalog[f]))

C22_Step ==
    (pc # "idle" /\ AllApplied) =>
        /\ schema' = schema
        /\ (pc = "exec") => ~last'.upgraded
        /\ \A t \in Tenants :
              \A k \in NewRows(t) : history'[t][k].status = "checkpoint"
        /\ (pc' = "idle" /\ Len(failed_dbs') = 0) =>
              (/\ Range(successful_dbs') = companies
               /\ result' = "True")

\* C22: in a run over a catalog all of whose units are recorded as applied
\* on every tenant (the state a fully successful run leaves), no step
\* executes upgrade() or changes a schema, the only rows added are
\* 'checkpoint' rows, and a summary without failed tenant lists every
\* tenant as successful.
C22_RunIdempotent == [][C22_Step]_vars

C24_CatalogListing ==
    LET paths == tenant_migration_paths
    IN  /\ \A e \in tenant_versions :
              (e.ext = "py" /\ e.name # <<"__init__", 0>>) =>
                  (Cardinality({k \in DOMAIN paths : paths[k] = e}) = 1)
        /\ \A k \in DOMAIN paths :
              /\ paths[k] \in tenant_versions
              /\ paths[k].ext = "py"
              /\ paths[k].name # <<"__init__", 0>>
              /\ paths[k] \notin versions
        /\ \A k, m \in DOMAIN paths :
              k < m => PathRank(paths[k].name) < PathRank(paths[m].name)
        /\ (pc # "idle") => (migration_files = get_tenant_migration_files)

\* C24 witness: a run over the two migration files of the directory.
C24_Witness ==
    /\ pc = "exec"
    /\ migration_files = <<1, 2>>
    /\ Cardinality(tenant_versions) = 5

C25_Step ==
    (/\ pc \in {"rollback", "rollback_exc"}
     /\ last.op = "exec"
     /\ pc' = "loop"
     /\ last'.ret # "raised") =>
        /\ last'.ret = "true"
        /\ history' = history

\* C25: a rollback_to_checkpoint that runs right after a failed
\* run_tenant_migration and does not raise finds the checkpoint of that
\* attempt and changes the status of no row.
C25_RollbackFlipsNothing == [][C25_Step]_vars

\* C25 witness: without any failing operation, a rollback returned True on
\* a table that holds an 'applied' row and no 'rolled_back' row.
C25_Witness ==
    /\ faults = 0
    /\ last.op = "rollback"
    /\ last.ret = "true"
    /\ \E k \in DOMAIN history[last.tenant] :
          history[last.tenant][k].status = "applied"
    /\ \A k \in DOMAIN history[last.tenant] :
          history[last.tenant][k].status # "rolled_back"

\* positions in migration_files of the units attempted on t in this run
AttemptedUnits(t) ==
    {k \in DOMAIN migration_files :
        <<migration_files[k], t>> \in Range(attempts)}

C26_Step ==
    /\ NoDuplicates(attempts')
    /\ Len(attempts') <= Len(migration_files') * Len(tenant_dbs')
    /\ (pc = "loop" /\ pc' = "idle") =>
          \A t \in Range(tenant_dbs) :
              LET n == Cardinality(AttemptedUnits(t))
              IN  /\ n >= 1
                  /\ AttemptedUnits(t) = 1 .. n
                  /\ (t \notin Range(failed_dbs)) =>
                        (n = Len(migration_files))

\* C26: a pair of unit and tenant is attempted at most once in a run, so
\* there are at most |units| x |tenants| attempts; at the summary the units
\* attempted on a tenant are a prefix of the catalog, the whole catalog when
\* the tenant did not fail; and every run that entered the loops ends.
C26_Terminates ==
    /\ [][C26_Step]_vars
    /\ (pc # "idle") ~> (pc = "idle")

\* C26 witness: a finished run of two units over two tenants with three
\* attempts, the second tenant having failed at the first unit.
C26_Witness ==
    /\ pc = "idle"
    /\ last.op = "summary"
    /\ Len(migration_files) = 2
    /\ failed_dbs = <<"db_bbb">>
    /\ Len(attempts) = 3

C27_Step ==
    /\ (pc # "idle") =>
          (/\ NoDuplicates(successful_dbs')
           /\ NoDuplicates(failed_dbs')
           /\ Range(successful_dbs') \cup Range(failed_dbs')
                 \subseteq Range(tenant_dbs))
    /\ (pc = "loop" /\ pc' = "idle") =>
          (/\ Range(tenant_dbs) = companies
           /\ Range(successful_dbs') \cup Range(failed_dbs') = companies)

\* C27: in a run that entered the loops, successful_dbs and failed_dbs hold
\* only tenants of the registry, each at most once, and at the summary every
\* tenant of the registry is in one of them.
C27_EveryTenantReported == [][C27_Step]_vars

\* C27 witness: a summary over two units with both tenants successful.
C27_Witness ==
    /\ last.op = "summary"
    /\ Len(migration_files) = 2
    /\ Len(successful_dbs) = 2
    /\ failed_dbs = <<>>

\* C28: after a run, every unit that a failed tenant completed before the
\* unit it failed at still has its matching 'applied' row, so that the next
\* run over the same catalog skips it.
C28_RecoverySkipsCompleted ==
    (pc = "idle" /\ last.op = "summary") =>
        \A t \in Range(failed_dbs) :
            \A k, m \in DOMAIN attempts :
                (k < m /\ attempts[k][2] = t /\ attempts[m][2] = t) =>
                    HoldsApplied(t, FileName(attempts[k][1]),
                                 get_migration_hash(catalog[attempts[k][1]]))

C29_Step ==
    /\ (pc = "exec" /\ ~HasUpgrade(catalog[CurFile])) =>
          (/\ ~last'.upgraded
           /\ schema' = schema
           /\ history' = history
           /\ pc' \in {"rollback", "rollback_exc"})
    /\ (pc # "idle") =>
          \A p, q \in DOMAIN attempts' :
              (~HasUpgrade(catalog[attempts'[p][1]])) =>
                  (attempts'[q][1] <= attempts'[p][1])
    /\ (/\ pc = "loop"
        /\ pc' = "loop"
        /\ i <= Len(migration_files)
        /\ i' = i + 1
        /\ ~HasUpgrade(catalog[CurFile])) =>
          (Range(failed_dbs) = Range(tenant_dbs))

\* C29: run_tenant_migration on a unit without upgrade() executes nothing,
\* commits nothing, records nothing and leads to the rollback; when the
\* loop leaves such a unit every tenant is in failed_dbs, and no unit after
\* it is attempted on any tenant in the run.
C29_NoUpgradeUnit == [][C29_Step]_vars

\* C29 witness: the summary of a run over two units and two tenants whose
\* first unit has no upgrade(): two attempts, both tenants failed.
C29_Witness ==
    /\ last.op = "summary"
    /\ Len(migration_files) = 2
    /\ ~HasUpgrade(catalog[migration_files[1]])
    /\ Len(tenant_dbs) = 2
    /\ Len(failed_dbs) = 2
    /\ Len(attempts) = 2

C30_Step ==
    (pc = "idle" /\ pc' = "loop") =>
        /\ history' = history
        /\ schema' = schema
        /\ \A t \in Tenants : hasTable[t] => hasTable'[t]
        /\ \A t \in companies \ last'.failed : hasTable'[t]

\* C30: the initialisation of a run leaves every existing tracking table
\* and all rows unchanged, and after it every tenant of the registry whose
\* create_migration_tracking_table did not fail has its table: a failure
\* for one tenant neither stops the run nor the creation for the others.
C30_CreateTableIdempotent == [][C30_Step]_vars

\* C30 witness: a run started over two tenants, the creation failed for
\* db_aaa, and db_bbb has its table with the rows of an earlier run.
C30_Witness ==
    /\ pc = "loop"
    /\ last.op = "start"
    /\ last.failed = {"db_aaa"}
    /\ companies = Tenants
    /\ hasTable["db_bbb"]
    /\ history["db_bbb"] # <<>>

\* the step functions in the order of setup_steps
StepFunctions == [k \in DOMAIN setup_steps |-> setup_steps[k].fn]

\* some call of a step function returned False or raised
SomeStepFailed ==
    \E k \in DOMAIN outcomes : outcomes[k] \in {"False", "raise"}

C31_Inv ==
    /\ executed = SubSeq(StepFunctions, 1, Len(executed))
    /\ Len(outcomes) = Len(executed)
    /\ (setup_pc = "exit") =>
          /\ executed = StepFunctions
          /\ exit_code \in {0, 1}
          /\ (exit_code = 1) <=> SomeStepFailed

C31_Step ==
    /\ (companies' \ companies) \subseteq created'
    /\ (companies' \ companies) \subseteq databases'

\* C31: main of the initial setup script calls the step functions in the
\* order of setup_steps, each exactly once and whatever the earlier calls
\* returned or raised; it returns 1 exactly when some call returned False or
\* raised, and 0 otherwise; and a step adds a tenant to auth.companies only
\* if the CREATE DATABASE of that tenant succeeded in this run.
C31_SetupMain == []C31_Inv /\ [][C31_Step]_vars

\* C31 witness: main has returned 1 after the first step returned False and
\* the second raised; the later steps were all called, a tenant database
\* was created and registered and another CREATE DATABASE failed.
C31_Witness ==
    /\ setup_pc = "exit"
    /\ exit_code = 1
    /\ outcomes[1] = "False"
    /\ outcomes[2] = "raise"
    /\ outcomes[5] = "True"
    /\ executed = StepFunctions
    /\ created \cap companies # {}
    /\ Len(tenant_names) < TenantCount

====
